---- MODULE Spec2Model ----
(***************************************************************************)
(* Model of the two X402 contracts of polkax402:                           *)
(*   - httpusd (src/contracts/httpusd.rs): a PSP22 token whose             *)
(*     transfer_with_authorization moves the signer's own token balance;   *)
(*   - x402_payment_executor (src/contracts/lib.rs): an executor whose     *)
(*     execute_payment pays the recipient out of the contract's own        *)
(*     native balance.                                                     *)
(* One of the two is deployed in Init (variable contract); both keep the   *)
(* same kind of storage, so the storage variables are shared.              *)
(*                                                                         *)
(* Semantics modelled: the Rust functions as written, acting on the        *)
(* storage struct (what #[ink::test] executes).  An Err return does not    *)
(* undo the storage writes the function made before returning.             *)
(*                                                                         *)
(* Cryptography is ideal: a hash is injective on its preimage, and a       *)
(* signature verifies only under the key that produced it and only for     *)
(* the digest it was produced over.                                        *)
(***************************************************************************)
EXTENDS Integers, Sequences, FiniteSets, TLC

VARIABLES
    contract,            \* which contract is deployed
    balances,            \* httpusd: balances; executor: native balances (env)
    allowances,          \* httpusd: allowances
    used_nonces,         \* used_nonces: set of 32-byte digests mapped to true
    owner,               \* owner
    facilitator_fee_bps, \* facilitator_fee_bps: u16
    total_supply,        \* httpusd: total_supply
    now,                 \* env().block_timestamp()
    stack,               \* invocations suspended inside a transfer (steps 7-8)
    last,                \* the last completed authorization: its result, the
                         \* step it ended at, what became of the fee transfer,
                         \* and how many invocations were suspended around it
    successes,           \* history: number of Ok results per (from, nonce)
    committed            \* history: the (from, nonce) that reached step 6

vars == <<contract, balances, allowances, used_nonces, owner,
          facilitator_fee_bps, total_supply, now, stack, last, successes,
          committed>>

-----------------------------------------------------------------------------
(* Bounds of the model *)

\* Balance is u128; the model scales it to BalanceBits bits, enough for the
\* product 1000 * 100 of the fee computation.
BalanceBits == 17
\* Largest block timestamp the model reaches.
MaxTime == 1
\* initial_supply given to the httpusd constructor / endowment of the executor.
InitialSupply == 2
\* Deepest nesting of invocations suspended inside a transfer.
MaxDepth == 2

\* AccountId is 32 bytes and valid_until 8 (u64); the model scales both.
AccountLen == 2
TimestampBytes == 1

(* Program constants *)

\* a signature is 64 bytes.
SignatureLen == 64
\* basis-point divisor.
BpsDivisor == 10000

U128Max == 2 ^ BalanceBits - 1
\* the bytes of the SCALE encoding of a Balance
BalanceBytes == (BalanceBits + 7) \div 8

HTTPUSD == "httpusd"
EXECUTOR == "x402_payment_executor"

\* Accounts: each is the byte its 32-byte id is filled with.
Alice == "alice"
Bob == "bob"
Owner == "owner"
\* the executor contract's own account (env().account_id())
Contract == "contract"
Accounts == {Alice, Bob, Owner}
Holders == Accounts \cup {Contract}

\* The inputs the environment draws from.
Recipients == Accounts
Amounts == {0, 2, U128Max}
Nonces == {<<1>>, <<1, 1>>}
Timestamps == 0..MaxTime
FeeRates == {0, 5000, 20000}
TransferValues == {1}

-----------------------------------------------------------------------------
(* Byte encodings and ideal cryptography *)

AccountFill(a) ==
    CASE a = Alice -> 1
      [] a = Bob -> 2
      [] a = Owner -> 3
      [] OTHER -> 4

\* AccountId::as_ref() / AccountId::encode(): the 32 raw bytes.
AccountBytes(a) == [i \in 1..AccountLen |-> AccountFill(a)]

\* SCALE encoding of a fixed-width unsigned integer: little endian.
RECURSIVE EncodeLE(_, _)
EncodeLE(v, width) ==
    IF width = 0 THEN <<>> ELSE <<v % 256>> \o EncodeLE(v \div 256, width - 1)

\* ink::env::hash_bytes::<H>: collision-free, so the digest stands for
\* its preimage (and the algorithm).
hash_bytes(alg, data) == [alg |-> alg, data |-> data]

\* The signature a keypair produces over a digest, and its truncation or
\* extension to another length.
Sign(signer, digest, len) == [len |-> len, signer |-> signer, digest |-> digest]

sr25519_verify(sig, hash, pub_key) ==
    /\ AccountBytes(sig.signer) = pub_key
    /\ sig.digest = hash

\* Option values of the checked arithmetic
None == <<>>
Some(v) == <<v>>
IsSome(o) == o # <<>>
Unwrap(o) == o[1]

checked_mul(a, b) ==
    IF b = 0 \/ a <= U128Max \div b THEN Some(a * b) ELSE None

checked_div(a, b) == IF b = 0 THEN None ELSE Some(a \div b)

checked_sub(a, b) == IF a >= b THEN Some(a - b) ELSE None

checked_add(a, b) == IF a <= U128Max - b THEN Some(a + b) ELSE None

-----------------------------------------------------------------------------
(* Private helpers of the contracts *)

\* (variant: the signer is left out of the preimage)
compute_nonce_hash_of_nonce_only(from, nonce) ==
    hash_bytes(IF contract = HTTPUSD THEN "Blake2x256" ELSE "Keccak256", nonce)

\* compute_nonce_hash: hash of from's raw bytes followed by the nonce's
\* bytes (Blake2x256 in httpusd, Keccak256 in the executor).
compute_nonce_hash(from, nonce) ==
    hash_bytes(IF contract = HTTPUSD THEN "Blake2x256" ELSE "Keccak256",
               AccountBytes(from) \o nonce)

\* (variant: amount is encoded without its high zero bytes)
RECURSIVE EncodeShortest(_)
EncodeShortest(v) ==
    IF v = 0 THEN <<>> ELSE <<v % 256>> \o EncodeShortest(v \div 256)

BuildMessageShortestAmount(from, to, amount, nonce, valid_until) ==
    AccountBytes(from) \o AccountBytes(to) \o EncodeShortest(amount)
        \o nonce \o EncodeLE(valid_until, TimestampBytes)

\* The message a payment authorization is signed over.
BuildMessage(from, to, amount, nonce, valid_until) ==
    AccountBytes(from) \o AccountBytes(to) \o EncodeLE(amount, BalanceBytes)
        \o nonce \o EncodeLE(valid_until, TimestampBytes)

\* (variant: the signature is checked against the key that made it, not
\* against from)
verify_signature_any_key(from, to, amount, nonce, valid_until, signature) ==
    LET message == BuildMessage(from, to, amount, nonce, valid_until)
        hash == hash_bytes("Blake2x256", message)
    IN  IF signature.len # SignatureLen
        THEN FALSE
        ELSE sr25519_verify(signature, hash, AccountBytes(signature.signer))

\* (variant: only a signature longer than 64 bytes is refused for its length)
verify_signature_length_at_most(from, to, amount, nonce, valid_until, signature) ==
    LET message == BuildMessage(from, to, amount, nonce, valid_until)
        hash == hash_bytes("Blake2x256", message)
    IN  IF signature.len > SignatureLen
        THEN FALSE
        ELSE sr25519_verify(signature, hash, AccountBytes(from))

\* verify_signature (the same in both contracts, events aside)
verify_signature(from, to, amount, nonce, valid_until, signature) ==
    LET message == BuildMessage(from, to, amount, nonce, valid_until)
        hash == hash_bytes("Blake2x256", message)
    IN  IF signature.len # SignatureLen
        THEN FALSE
        ELSE sr25519_verify(signature, hash, AccountBytes(from))

\* balance_of: the stored balance (the model stores 0 for an absent entry)
balance_of(bal, account) == bal[account]

\* (variant: the recipient's balance is read before the sender's debit is
\* written)
transfer_from_to_stale_read(bal, from, to, value) ==
    LET from_balance == balance_of(bal, from)
        to_balance == balance_of(bal, to)
    IN  IF from_balance < value
        THEN [ok |-> FALSE, err |-> "PSP22(InsufficientBalance)", balances |-> bal]
        ELSE
          LET bal1 == [bal EXCEPT ![from] = from_balance - value]
              new_to_balance == checked_add(to_balance, value)
          IN  IF ~IsSome(new_to_balance)
              THEN [ok |-> FALSE, err |-> "PSP22(Custom(Overflow))", balances |-> bal1]
              ELSE [ok |-> TRUE, err |-> "Ok",
                    balances |-> [bal1 EXCEPT ![to] = Unwrap(new_to_balance)]]

\* httpusd transfer_from_to on balances bal: the result and the balances
\* it leaves.  The debit of from is written before the credit of to is
\* computed, so an overflowing credit returns Err with from debited.
transfer_from_to(bal, from, to, value) ==
    LET from_balance == balance_of(bal, from)
    IN  IF from_balance < value
        THEN [ok |-> FALSE, err |-> "PSP22(InsufficientBalance)", balances |-> bal]
        ELSE
          LET bal1 == [bal EXCEPT ![from] = from_balance - value]
              to_balance == balance_of(bal1, to)
              new_to_balance == checked_add(to_balance, value)
          IN  IF ~IsSome(new_to_balance)
              THEN [ok |-> FALSE, err |-> "PSP22(Custom(Overflow))", balances |-> bal1]
              ELSE [ok |-> TRUE, err |-> "Ok",
                    balances |-> [bal1 EXCEPT ![to] = Unwrap(new_to_balance)]]

\* env().transfer(destination, value) of the executor: a native transfer out
\* of the contract's own account, all or nothing.
env_transfer(bal, destination, value) ==
    IF bal[Contract] < value \/ ~IsSome(checked_add(bal[destination], value))
    THEN [ok |-> FALSE, balances |-> bal]
    ELSE [ok |-> TRUE,
          balances |-> [[bal EXCEPT ![Contract] = @ - value]
                            EXCEPT ![destination] = @ + value]]

\* (variant: the division is done before the multiplication)
facilitator_fee_of_divide_first(amount) ==
    LET v == checked_div(amount, BpsDivisor)
    IN  IF IsSome(v) THEN checked_mul(Unwrap(v), facilitator_fee_bps) ELSE None

\* Step 5 of both contracts: the facilitator fee and the net amount, each
\* None when the checked arithmetic fails.
facilitator_fee_of(amount) ==
    LET v == checked_mul(amount, facilitator_fee_bps)
    IN  IF IsSome(v) THEN checked_div(Unwrap(v), BpsDivisor) ELSE None

\* (variant: the subtraction saturates at zero instead of failing)
net_amount_of_saturating(amount, facilitator_fee) ==
    Some(IF amount >= facilitator_fee THEN amount - facilitator_fee ELSE 0)

net_amount_of(amount, facilitator_fee) == checked_sub(amount, facilitator_fee)

Rejected(reason, step) ==
    [result |-> reason, step |-> step, fee |-> 0, net |-> 0]

\* (variant: the boundary timestamp counts as expired)
is_expired_at_boundary(current_time, valid_until) == current_time >= valid_until

\* Step 1: the expiry test
is_expired(current_time, valid_until) == current_time > valid_until

\* (variant: the replay test never fires)
nonce_is_used_never(nonce_hash) == FALSE

\* Step 2: the replay test
nonce_is_used(nonce_hash) == nonce_hash \in used_nonces

\* (variant: the signature is verified before the replay test)
twa_checks_signature_first(from, to, amount, valid_until, nonce, signature) ==
    LET current_time == now
        nonce_hash == compute_nonce_hash(from, nonce)
        facilitator_fee == facilitator_fee_of(amount)
    IN  IF is_expired(current_time, valid_until) THEN Rejected("PaymentExpired", 1)
        ELSE IF ~verify_signature(from, to, amount, nonce, valid_until, signature)
             THEN Rejected("InvalidSignature", 3)
        ELSE IF nonce_is_used(nonce_hash) THEN Rejected("NonceAlreadyUsed", 2)
        ELSE IF amount = 0 THEN Rejected("PSP22(InsufficientBalance)", 4)
        ELSE IF ~IsSome(facilitator_fee) THEN Rejected("PSP22(InsufficientBalance)", 5)
        ELSE IF ~IsSome(net_amount_of(amount, Unwrap(facilitator_fee)))
             THEN Rejected("PSP22(InsufficientBalance)", 5)
        ELSE [result |-> "Ok", step |-> 5, fee |-> Unwrap(facilitator_fee),
              net |-> Unwrap(net_amount_of(amount, Unwrap(facilitator_fee)))]

\* Steps 1-5 of httpusd transfer_with_authorization: the rejection and the
\* step that raised it, or Ok with the fee and net amount.
twa_checks(from, to, amount, valid_until, nonce, signature) ==
    LET current_time == now
        nonce_hash == compute_nonce_hash(from, nonce)
        facilitator_fee == facilitator_fee_of(amount)
    IN  IF is_expired(current_time, valid_until) THEN Rejected("PaymentExpired", 1)
        ELSE IF nonce_is_used(nonce_hash) THEN Rejected("NonceAlreadyUsed", 2)
        ELSE IF ~verify_signature(from, to, amount, nonce, valid_until, signature)
             THEN Rejected("InvalidSignature", 3)
        ELSE IF amount = 0 THEN Rejected("PSP22(InsufficientBalance)", 4)
        ELSE IF ~IsSome(facilitator_fee) THEN Rejected("PSP22(InsufficientBalance)", 5)
        ELSE IF ~IsSome(net_amount_of(amount, Unwrap(facilitator_fee)))
             THEN Rejected("PSP22(InsufficientBalance)", 5)
        ELSE [result |-> "Ok", step |-> 5, fee |-> Unwrap(facilitator_fee),
              net |-> Unwrap(net_amount_of(amount, Unwrap(facilitator_fee)))]

\* Steps 1-5 of the executor's execute_payment.
ep_checks(from, to, amount, nonce, valid_until, signature) ==
    LET current_time == now
        nonce_hash == compute_nonce_hash(from, nonce)
        facilitator_fee == facilitator_fee_of(amount)
    IN  IF is_expired(current_time, valid_until) THEN Rejected("PaymentExpired", 1)
        ELSE IF nonce_is_used(nonce_hash) THEN Rejected("NonceAlreadyUsed", 2)
        ELSE IF ~verify_signature(from, to, amount, nonce, valid_until, signature)
             THEN Rejected("InvalidSignature", 3)
        ELSE IF amount = 0 THEN Rejected("ZeroAmount", 4)
        ELSE IF ~IsSome(facilitator_fee) THEN Rejected("InsufficientBalance", 5)
        ELSE IF ~IsSome(net_amount_of(amount, Unwrap(facilitator_fee)))
             THEN Rejected("InsufficientBalance", 5)
        ELSE [result |-> "Ok", step |-> 5, fee |-> Unwrap(facilitator_fee),
              net |-> Unwrap(net_amount_of(amount, Unwrap(facilitator_fee)))]

\* (variant: the flag is never written)
mark_nonce_used_skipped(used, from, nonce) == used

\* (variant: the flag is written under the hash of the nonce alone)
mark_nonce_used_unscoped(used, from, nonce) ==
    used \cup {hash_bytes(IF contract = HTTPUSD THEN "Blake2x256" ELSE "Keccak256",
                          nonce)}

\* (variant: a single slot holds the latest nonce)
mark_nonce_used_single_slot(used, from, nonce) == {compute_nonce_hash(from, nonce)}

\* Step 6: mark the nonce as used.
mark_nonce_used(used, from, nonce) == used \cup {compute_nonce_hash(from, nonce)}

\* Step 7 on balances bal: the principal transfer.
twa_principal(bal, from, to, net_amount) == transfer_from_to(bal, from, to, net_amount)

ep_principal(bal, to, net_amount) ==
    LET t == env_transfer(bal, to, net_amount)
    IN  [ok |-> t.ok, err |-> IF t.ok THEN "Ok" ELSE "TransferFailed",
         balances |-> t.balances]

\* (variant: the fee test is inverted, so a positive fee is never moved)
twa_fee_inverted(bal, from, facilitator_fee) ==
    IF facilitator_fee = 0
    THEN LET t == transfer_from_to(bal, from, owner, facilitator_fee)
         IN  [balances |-> t.balances,
              fee_transfer |-> IF t.ok THEN "paid" ELSE "failed"]
    ELSE [balances |-> bal, fee_transfer |-> "skipped"]

\* Step 8 on balances bal: the fee transfer, whose result the handler
\* discards (let _ =): the balances it leaves, and what became of it.
twa_fee(bal, from, facilitator_fee) ==
    IF facilitator_fee > 0
    THEN LET t == transfer_from_to(bal, from, owner, facilitator_fee)
         IN  [balances |-> t.balances,
              fee_transfer |-> IF t.ok THEN "paid" ELSE "failed"]
    ELSE [balances |-> bal, fee_transfer |-> "skipped"]

ep_fee(bal, facilitator_fee) ==
    IF facilitator_fee > 0
    THEN LET t == env_transfer(bal, owner, facilitator_fee)
         IN  [balances |-> t.balances,
              fee_transfer |-> IF t.ok THEN "paid" ELSE "failed"]
    ELSE [balances |-> bal, fee_transfer |-> "skipped"]

\* (variant: the fee transfer's error is propagated with ?)
twa_run_fee_propagated(from, to, amount, valid_until, nonce, signature) ==
    LET c == twa_checks(from, to, amount, valid_until, nonce, signature)
    IN  IF c.result # "Ok"
        THEN [result |-> c.result, step |-> c.step, fee_transfer |-> "none",
              balances |-> balances, used_nonces |-> used_nonces]
        ELSE
          LET used1 == mark_nonce_used(used_nonces, from, nonce)
              t7 == twa_principal(balances, from, to, c.net)
          IN  IF ~t7.ok
              THEN [result |-> t7.err, step |-> 7, fee_transfer |-> "none",
                    balances |-> t7.balances, used_nonces |-> used1]
              ELSE LET t8 == twa_fee(t7.balances, from, c.fee)
                   IN  [result |-> IF t8.fee_transfer = "failed"
                                   THEN "PSP22(InsufficientBalance)" ELSE "Ok",
                        step |-> IF t8.fee_transfer = "failed" THEN 8 ELSE 9,
                        fee_transfer |-> t8.fee_transfer,
                        balances |-> t8.balances, used_nonces |-> used1]

\* The whole of transfer_with_authorization on the current storage: its
\* result, the last step it reached, and the storage it leaves.
twa_run(from, to, amount, valid_until, nonce, signature) ==
    LET c == twa_checks(from, to, amount, valid_until, nonce, signature)
    IN  IF c.result # "Ok"
        THEN [result |-> c.result, step |-> c.step, fee_transfer |-> "none",
              balances |-> balances, used_nonces |-> used_nonces]
        ELSE
          LET used1 == mark_nonce_used(used_nonces, from, nonce)
              t7 == twa_principal(balances, from, to, c.net)
          IN  IF ~t7.ok
              THEN [result |-> t7.err, step |-> 7, fee_transfer |-> "none",
                    balances |-> t7.balances, used_nonces |-> used1]
              ELSE LET t8 == twa_fee(t7.balances, from, c.fee)
                   IN  [result |-> "Ok", step |-> 9,
                        fee_transfer |-> t8.fee_transfer,
                        balances |-> t8.balances, used_nonces |-> used1]

\* The whole of execute_payment on the current storage.
ep_run(from, to, amount, nonce, valid_until, signature) ==
    LET c == ep_checks(from, to, amount, nonce, valid_until, signature)
    IN  IF c.result # "Ok"
        THEN [result |-> c.result, step |-> c.step, fee_transfer |-> "none",
              balances |-> balances, used_nonces |-> used_nonces]
        ELSE
          LET used1 == mark_nonce_used(used_nonces, from, nonce)
              t7 == ep_principal(balances, to, c.net)
          IN  IF ~t7.ok
              THEN [result |-> t7.err, step |-> 7, fee_transfer |-> "none",
                    balances |-> t7.balances, used_nonces |-> used1]
              ELSE LET t8 == ep_fee(t7.balances, c.fee)
                   IN  [result |-> "Ok", step |-> 9,
                        fee_transfer |-> t8.fee_transfer,
                        balances |-> t8.balances, used_nonces |-> used1]

-----------------------------------------------------------------------------
(* The environment's inputs *)

Blake2(message) == hash_bytes("Blake2x256", message)

OtherRecipient(to) == IF to = Bob THEN Owner ELSE Bob

\* The signer's own 64-byte signature over a payload.
Authorization(from, to, amount, nonce, valid_until) ==
    Sign(from, Blake2(BuildMessage(from, to, amount, nonce, valid_until)),
         SignatureLen)

\* The other signatures a submitter may attach to a payload: the signer's
\* signature cut to 63 bytes, another keypair's signature over the payload,
\* and the signer's signature over the payload with another recipient.
BadSignatures(from, to, amount, nonce, valid_until) ==
    LET d == Blake2(BuildMessage(from, to, amount, nonce, valid_until))
    IN  { Sign(from, d, SignatureLen - 1),
          Sign(Bob, d, SignatureLen),
          Authorization(from, OtherRecipient(to), amount, nonce, valid_until) }

\* The (from, nonce) pairs authorizations are submitted for: the same nonce
\* string for two signers, one of them the facilitator.
Keys == {<<Alice, <<1>>>>, <<Owner, <<1>>>>}

Submission(k, to, amount, valid_until, signature) ==
    [from |-> k[1], to |-> to, amount |-> amount, nonce |-> k[2],
     valid_until |-> valid_until, signature |-> signature]

\* Every call of the authorization message the environment makes: each
\* payload with the signer's authorization, and the payloads to Bob with
\* each of the other signatures.
Submissions ==
    { Submission(k, to, amount, valid_until,
                 Authorization(k[1], to, amount, k[2], valid_until)) :
        <<k, to, amount, valid_until>> \in
            Keys \X Recipients \X Amounts \X Timestamps }
    \cup
    UNION { { Submission(k, Bob, amount, valid_until, signature) :
                signature \in BadSignatures(k[1], Bob, amount, k[2], valid_until) } :
            <<k, amount, valid_until>> \in Keys \X Amounts \X Timestamps }

Bump(count, from, nonce) ==
    [count EXCEPT ![<<from, nonce>>] = IF @ < 2 THEN @ + 1 ELSE @]

-----------------------------------------------------------------------------
(* Construction *)

\* Httpusd::new(initial_supply, facilitator_fee_bps), called by Owner
new_httpusd(initial_supply, fee_bps) ==
    /\ contract = HTTPUSD
    /\ total_supply = initial_supply
    /\ balances = [a \in Holders |-> IF a = Owner THEN initial_supply ELSE 0]
    /\ allowances = [p \in Accounts \X Accounts |-> 0]
    /\ used_nonces = {}
    /\ owner = Owner
    /\ facilitator_fee_bps = fee_bps

\* X402PaymentExecutor::new(facilitator_fee_bps), called by Owner; the
\* contract's account holds an endowment of native tokens.
new_executor(endowment, fee_bps) ==
    /\ contract = EXECUTOR
    /\ total_supply = 0
    /\ balances = [a \in Holders |-> IF a = Contract THEN endowment ELSE 0]
    /\ allowances = [p \in Accounts \X Accounts |-> 0]
    /\ used_nonces = {}
    /\ owner = Owner
    /\ facilitator_fee_bps = fee_bps

Init ==
    /\ \E fee_bps \in FeeRates :
          \/ new_httpusd(InitialSupply, fee_bps)
          \/ new_executor(InitialSupply, fee_bps)
    /\ now = 0
    /\ stack = <<>>
    /\ last = [result |-> "none", step |-> 0, fee_transfer |-> "none", depth |-> 0]
    /\ successes = [k \in Keys |-> 0]
    /\ committed = {}

-----------------------------------------------------------------------------
(* Messages, each the whole handler *)

\* Httpusd::transfer_with_authorization
transfer_with_authorization(from, to, amount, valid_until, nonce, signature) ==
    /\ contract = HTTPUSD
    /\ stack = <<>>
    /\ LET r == twa_run(from, to, amount, valid_until, nonce, signature)
       IN  /\ balances' = r.balances
           /\ used_nonces' = r.used_nonces
           /\ last' = [result |-> r.result, step |-> r.step,
                       fee_transfer |-> r.fee_transfer, depth |-> 0]
           /\ successes' = IF r.result = "Ok"
                           THEN Bump(successes, from, nonce) ELSE successes
           /\ committed' = IF r.step >= 6
                           THEN committed \cup {<<from, nonce>>} ELSE committed
    /\ UNCHANGED <<contract, allowances, owner, facilitator_fee_bps,
                   total_supply, now, stack>>

\* X402PaymentExecutor::execute_payment.  The message is payable and never
\* reads the value sent with it; callers here send none, and the contract
\* pays from what its account holds.
execute_payment(from, to, amount, nonce, valid_until, signature) ==
    /\ contract = EXECUTOR
    /\ stack = <<>>
    /\ LET r == ep_run(from, to, amount, nonce, valid_until, signature)
       IN  /\ balances' = r.balances
           /\ used_nonces' = r.used_nonces
           /\ last' = [result |-> r.result, step |-> r.step,
                       fee_transfer |-> r.fee_transfer, depth |-> 0]
           /\ successes' = IF r.result = "Ok"
                           THEN Bump(successes, from, nonce) ELSE successes
           /\ committed' = IF r.step >= 6
                           THEN committed \cup {<<from, nonce>>} ELSE committed
    /\ UNCHANGED <<contract, allowances, owner, facilitator_fee_bps,
                   total_supply, now, stack>>

\* is_nonce_used (both contracts): a read-only probe
is_nonce_used_value(from, nonce) == compute_nonce_hash(from, nonce) \in used_nonces

is_nonce_used(from, nonce) ==
    /\ is_nonce_used_value(from, nonce) \in BOOLEAN
    /\ UNCHANGED vars

\* (variant: the caller is not compared with the owner)
set_facilitator_fee_run_unchecked(caller, fee_bps) ==
    [result |-> "Ok", fee_bps |-> fee_bps]

\* set_facilitator_fee (both contracts), called by caller: its result and
\* the rate it leaves stored
set_facilitator_fee_run(caller, fee_bps) ==
    IF caller # owner
    THEN [result |-> IF contract = HTTPUSD THEN "PSP22(Custom(Not owner))"
                     ELSE "InvalidRecipient",
          fee_bps |-> facilitator_fee_bps]
    ELSE [result |-> "Ok", fee_bps |-> fee_bps]

set_facilitator_fee(caller, fee_bps) ==
    /\ facilitator_fee_bps' = set_facilitator_fee_run(caller, fee_bps).fee_bps
    /\ UNCHANGED <<contract, balances, allowances, used_nonces, owner,
                   total_supply, now, stack, last, successes, committed>>

\* get_facilitator_fee (both contracts)
get_facilitator_fee == facilitator_fee_bps

\* Httpusd::transfer, called by caller
transfer(caller, to, value) ==
    /\ contract = HTTPUSD
    /\ LET t == transfer_from_to(balances, caller, to, value)
       IN  balances' = t.balances
    /\ UNCHANGED <<contract, allowances, used_nonces, owner,
                   facilitator_fee_bps, total_supply, now, stack, last, successes, committed>>

\* Httpusd::approve, called by caller
approve(caller, spender, value) ==
    /\ contract = HTTPUSD
    /\ allowances' = [allowances EXCEPT ![<<caller, spender>>] = value]
    /\ UNCHANGED <<contract, balances, used_nonces, owner,
                   facilitator_fee_bps, total_supply, now, stack, last, successes, committed>>

\* Httpusd::transfer_from, called by caller.  The allowance is written
\* before the transfer, and stays written when the transfer fails.
transfer_from(caller, from, to, value) ==
    /\ contract = HTTPUSD
    /\ LET allowance == allowances[<<from, caller>>]
       IN  IF allowance < value
           THEN UNCHANGED <<allowances, balances>>
           ELSE LET t == transfer_from_to(balances, from, to, value)
                IN  /\ allowances' = [allowances EXCEPT
                                         ![<<from, caller>>] = allowance - value]
                    /\ balances' = t.balances
    /\ UNCHANGED <<contract, used_nonces, owner,
                   facilitator_fee_bps, total_supply, now, stack, last, successes, committed>>

\* The block timestamp advances between calls.
Tick ==
    /\ now < MaxTime
    /\ now' = now + 1
    /\ UNCHANGED <<contract, balances, allowances, used_nonces, owner,
                   facilitator_fee_bps, total_supply, stack, last, successes, committed>>

Submit ==
    \E s \in Submissions :
       \/ transfer_with_authorization(s.from, s.to, s.amount, s.valid_until,
                                      s.nonce, s.signature)
       \/ execute_payment(s.from, s.to, s.amount, s.nonce, s.valid_until,
                          s.signature)

Probe == \E from \in Accounts, nonce \in Nonces : is_nonce_used(from, nonce)

Admin == \E caller \in {Alice, Owner}, fee_bps \in FeeRates :
            set_facilitator_fee(caller, fee_bps)

Psp22 ==
    \/ \E caller \in Accounts, to \in Accounts, value \in TransferValues :
          transfer(caller, to, value)
    \/ \E value \in {0, 1} : approve(Alice, Bob, value)
    \/ \E to \in {Bob, Owner} : transfer_from(Bob, Alice, to, 1)

Next == Submit \/ Probe \/ Admin \/ Psp22 \/ Tick

Spec == Init /\ [][Next]_vars

-----------------------------------------------------------------------------
(* The same two handlers, step by step.  Steps 1-6 run without yielding;   *)
(* the invocation is then inside the transfer of step 7, and after it      *)
(* inside the fee transfer of step 8.  The executor's transfers are calls  *)
(* to the host (env().transfer), during which the host may call back into  *)
(* the contract: a nested execute_payment may run to completion, or to its *)
(* own transfer, while the outer invocation is suspended.  httpusd's       *)
(* transfer_from_to makes no call out of the contract, so nothing nests    *)
(* inside it.                                                              *)

Frame(from, to, nonce, c) ==
    [from |-> from, to |-> to, nonce |-> nonce,
     fee |-> c.fee, net |-> c.net, pc |-> "principal"]

Top == stack[Len(stack)]
Pop == SubSeq(stack, 1, Len(stack) - 1)

\* Steps 1-6 of transfer_with_authorization
twa_begin(from, to, amount, valid_until, nonce, signature) ==
    /\ contract = HTTPUSD
    /\ stack = <<>>
    /\ LET c == twa_checks(from, to, amount, valid_until, nonce, signature)
       IN  IF c.result # "Ok"
           THEN /\ last' = [result |-> c.result, step |-> c.step,
                            fee_transfer |-> "none", depth |-> Len(stack)]
                /\ UNCHANGED <<used_nonces, stack, committed>>
           ELSE /\ used_nonces' = mark_nonce_used(used_nonces, from, nonce)
                /\ committed' = committed \cup {<<from, nonce>>}
                /\ stack' = Append(stack, Frame(from, to, nonce, c))
                /\ UNCHANGED last
    /\ UNCHANGED <<contract, balances, allowances, owner, facilitator_fee_bps,
                   total_supply, now, successes>>

\* Steps 1-6 of execute_payment, at top level or nested in a transfer
ep_begin(from, to, amount, nonce, valid_until, signature) ==
    /\ contract = EXECUTOR
    /\ Len(stack) < MaxDepth
    /\ LET c == ep_checks(from, to, amount, nonce, valid_until, signature)
       IN  IF c.result # "Ok"
           THEN /\ last' = [result |-> c.result, step |-> c.step,
                            fee_transfer |-> "none", depth |-> Len(stack)]
                /\ UNCHANGED <<used_nonces, stack, committed>>
           ELSE /\ used_nonces' = mark_nonce_used(used_nonces, from, nonce)
                /\ committed' = committed \cup {<<from, nonce>>}
                /\ stack' = Append(stack, Frame(from, to, nonce, c))
                /\ UNCHANGED last
    /\ UNCHANGED <<contract, balances, allowances, owner, facilitator_fee_bps,
                   total_supply, now, successes>>

\* Step 7 of the innermost invocation
TransferPrincipal ==
    /\ stack # <<>>
    /\ Top.pc = "principal"
    /\ LET t7 == IF contract = HTTPUSD
                 THEN twa_principal(balances, Top.from, Top.to, Top.net)
                 ELSE ep_principal(balances, Top.to, Top.net)
       IN  /\ balances' = t7.balances
           /\ IF t7.ok
              THEN /\ stack' = [stack EXCEPT ![Len(stack)].pc = "fee"]
                   /\ UNCHANGED last
              ELSE /\ stack' = Pop
                   /\ last' = [result |-> t7.err, step |-> 7,
                               fee_transfer |-> "none", depth |-> Len(stack) - 1]
    /\ UNCHANGED <<contract, allowances, used_nonces, owner,
                   facilitator_fee_bps, total_supply, now, successes, committed>>

\* Steps 8-9 of the innermost invocation
TransferFee ==
    /\ stack # <<>>
    /\ Top.pc = "fee"
    /\ LET t8 == IF contract = HTTPUSD
                 THEN twa_fee(balances, Top.from, Top.fee)
                 ELSE ep_fee(balances, Top.fee)
       IN  /\ balances' = t8.balances
           /\ last' = [result |-> "Ok", step |-> 9,
                       fee_transfer |-> t8.fee_transfer, depth |-> Len(stack) - 1]
    /\ stack' = Pop
    /\ successes' = Bump(successes, Top.from, Top.nonce)
    /\ UNCHANGED <<contract, allowances, used_nonces, owner,
                   facilitator_fee_bps, total_supply, now, committed>>

\* The block timestamp advances between transactions only.
TickBetween == stack = <<>> /\ Tick

Begin ==
    \E s \in Submissions :
       \/ twa_begin(s.from, s.to, s.amount, s.valid_until, s.nonce, s.signature)
       \/ ep_begin(s.from, s.to, s.amount, s.nonce, s.valid_until, s.signature)

NextReentrant == Begin \/ TransferPrincipal \/ TransferFee \/ TickBetween

SpecReentrant == Init /\ [][NextReentrant]_vars

-----------------------------------------------------------------------------
(* Properties *)

\* The result of the deployed contract's authorization message on the
\* current storage, and of its steps 1-5.
Run(s) ==
    IF contract = HTTPUSD
    THEN twa_run(s.from, s.to, s.amount, s.valid_until, s.nonce, s.signature)
    ELSE ep_run(s.from, s.to, s.amount, s.nonce, s.valid_until, s.signature)

Checks(s) ==
    IF contract = HTTPUSD
    THEN twa_checks(s.from, s.to, s.amount, s.valid_until, s.nonce, s.signature)
    ELSE ep_checks(s.from, s.to, s.amount, s.nonce, s.valid_until, s.signature)

\* A submission carries the signer's authorization: a 64-byte signature,
\* made by from's key, over the message of exactly its own fields.
IsAuthorized(s) ==
    /\ s.signature.len = SignatureLen
    /\ s.signature.signer = s.from
    /\ s.signature.digest =
          Blake2(BuildMessage(s.from, s.to, s.amount, s.nonce, s.valid_until))

RECURSIVE SumOver(_, _)
SumOver(bal, accounts) ==
    IF accounts = {} THEN 0
    ELSE LET a == CHOOSE x \in accounts : TRUE
         IN  bal[a] + SumOver(bal, accounts \ {a})

TotalBalance(bal) == SumOver(bal, Holders)

\* The account the authorization path takes the funds from: the signer in
\* httpusd, the contract's own account in the executor.
Payer(from) == IF contract = HTTPUSD THEN from ELSE Contract

\* C1: for every (from, nonce), at most one invocation ends in Ok, however
\* often payloads carrying it are submitted, nested invocations included.
AtMostOnce == \A k \in Keys : successes[k] <= 1

\* Every key has succeeded once, and a later submission was turned away as
\* a replay.
AtMostOnceWitness ==
    /\ \A k \in Keys : successes[k] = 1
    /\ last.result = "NonceAlreadyUsed"

\* C2: an invocation that ends in Ok or changes a balance carries the
\* signer's authorization of exactly its own fields; one that does not
\* carry it changes no balance and no nonce flag.
OnlySignerMovesFunds ==
    \A s \in Submissions :
       LET r == Run(s)
       IN  /\ (r.result = "Ok" \/ r.balances # balances) => IsAuthorized(s)
           /\ ~IsAuthorized(s) =>
                 /\ r.result # "Ok"
                 /\ r.balances = balances
                 /\ r.used_nonces = used_nonces

\* An authorization has succeeded, and a submission was turned away for its
\* signature.
OnlySignerMovesFundsWitness ==
    /\ \E k \in Keys : successes[k] = 1
    /\ last.result = "InvalidSignature"
    /\ last.step = 3

\* C3: once an authorization for (from, nonce) has succeeded, submitting it
\* again, correctly signed and unexpired, is rejected with NonceAlreadyUsed
\* at step 2 and moves no funds.
ReplayRejected ==
    \A s \in Submissions :
       (/\ successes[<<s.from, s.nonce>>] >= 1
        /\ now <= s.valid_until
        /\ IsAuthorized(s))
       => LET r == Run(s)
          IN  /\ r.result = "NonceAlreadyUsed"
              /\ r.step = 2
              /\ r.balances = balances

\* One key only was ever committed, it succeeded, and a submission was then
\* rejected as a replay.
ReplayRejectedWitness ==
    /\ \E k \in Keys : successes[k] = 1 /\ committed = {k}
    /\ last.result = "NonceAlreadyUsed"
    /\ last.step = 2

\* C4: an invocation is rejected with PaymentExpired exactly when the block
\* timestamp is later than valid_until (equality passes the expiry check),
\* and an expired call ends at step 1 with balances and nonce flags as
\* they were.
ExpiryBoundary ==
    \A s \in Submissions :
       LET r == Run(s)
       IN  /\ (r.result = "PaymentExpired") <=> (now > s.valid_until)
           /\ now > s.valid_until =>
                 /\ r.step = 1
                 /\ r.balances = balances
                 /\ r.used_nonces = used_nonces

\* At the last timestamp a payload valid until the timestamp before was
\* rejected as expired.
ExpiryBoundaryWitness ==
    /\ now = MaxTime
    /\ last.result = "PaymentExpired"
    /\ last.step = 1

\* The fee of the specification: floor(amount * feeBps / 10000).
FeeOf(amount) == (amount * facilitator_fee_bps) \div BpsDivisor

\* C5 as stated: after a successful authorization with amount > 0 the
\* balance of from is down by amount, that of to up by amount - fee, and
\* that of the facilitator up by fee, with the total unchanged.
ExactSettlementAsStated ==
    \A s \in Submissions :
       LET r == Run(s)
       IN  (r.result = "Ok" /\ s.amount > 0) =>
              /\ r.balances[s.from] = balances[s.from] - s.amount
              /\ r.balances[s.to] = balances[s.to] + s.amount - FeeOf(s.amount)
              /\ r.balances[owner] = balances[owner] + FeeOf(s.amount)
              /\ TotalBalance(r.balances) = TotalBalance(balances)

\* C5 amended: after a successful authorization whose paying account (from
\* in httpusd, the contract's account in the executor) held at least
\* amount, each balance has changed by -amount if it is the paying
\* account's, +(amount - fee) if it is to's, +fee if it is the
\* facilitator's, added up where accounts coincide; the total is unchanged.
ExactSettlement ==
    \A s \in Submissions :
       LET r == Run(s)
       IN  (r.result = "Ok" /\ s.amount > 0
              /\ balances[Payer(s.from)] >= s.amount) =>
              /\ \A a \in Holders :
                    r.balances[a] =
                       balances[a]
                       - (IF a = Payer(s.from) THEN s.amount ELSE 0)
                       + (IF a = s.to THEN s.amount - FeeOf(s.amount) ELSE 0)
                       + (IF a = owner THEN FeeOf(s.amount) ELSE 0)
              /\ TotalBalance(r.balances) = TotalBalance(balances)

\* httpusd: Alice, holding the whole supply, has paid it to Bob at 50%:
\* half went to Bob and half to the facilitator.
ExactSettlementWitness ==
    /\ contract = HTTPUSD
    /\ last.result = "Ok"
    /\ last.fee_transfer = "paid"
    /\ balances[Alice] = 0
    /\ balances[Bob] > 0
    /\ balances[Bob] = balances[Owner]

\* C6: a successful authorization leaves the sum of all balances as it was,
\* also when from, to and the facilitator coincide and when the fee
\* transfer fails.
Conservation ==
    \A s \in Submissions :
       LET r == Run(s)
       IN  r.result = "Ok" => TotalBalance(r.balances) = TotalBalance(balances)

\* An authorization has succeeded although its fee transfer failed.
ConservationWitness ==
    /\ last.result = "Ok"
    /\ last.fee_transfer = "failed"
    /\ TotalBalance(balances) = InitialSupply

\* C7: no step of either contract removes a nonce flag.
NonceFlagsMonotonic == [][used_nonces \subseteq used_nonces']_vars

\* Every key is used, and calls went on after that.
NonceFlagsMonotonicWitness ==
    /\ Cardinality(used_nonces) = Cardinality(Keys)
    /\ allowances[<<Alice, Bob>>] = 1
    /\ last.result = "NonceAlreadyUsed"

\* C8: is_nonce_used(from, nonce) is true exactly when an earlier invocation
\* for (from, nonce) reached the nonce commit of step 6.
IsNonceUsedIffCommitted ==
    \A from \in Accounts, nonce \in Nonces :
       is_nonce_used_value(from, nonce) <=> <<from, nonce>> \in committed

\* A key was committed by an invocation that then failed, its flag is set,
\* another key's flag is not, and the last invocation was rejected before
\* the commit.
IsNonceUsedIffCommittedWitness ==
    /\ \E k \in Keys :
          /\ k \in committed
          /\ successes[k] = 0
          /\ is_nonce_used_value(k[1], k[2])
    /\ \E k \in Keys : ~is_nonce_used_value(k[1], k[2])
    /\ last.step \in 1..5

\* While an invocation is inside its transfers the flag of its (from, nonce)
\* is set, and every unexpired submission for that pair is turned away at
\* step 2.
FlagSetWhileInTransfer ==
    \A i \in 1..Len(stack) :
       /\ compute_nonce_hash(stack[i].from, stack[i].nonce) \in used_nonces
       /\ \A s \in Submissions :
             (s.from = stack[i].from /\ s.nonce = stack[i].nonce
                 /\ now <= s.valid_until)
             => Checks(s).result = "NonceAlreadyUsed"

\* C9: the nonce flag is set before any balance mutation: at every point
\* where a transfer of steps 7-8 is in progress the flag of its
\* (from, nonce) is set, balances change only inside such a transfer, and an
\* invocation for the same (from, nonce) started from inside the transfer
\* is rejected with NonceAlreadyUsed and changes no balance.
ReentrancyGuard ==
    /\ []FlagSetWhileInTransfer
    /\ [][/\ balances' # balances =>
               /\ stack # <<>>
               /\ compute_nonce_hash(Top.from, Top.nonce) \in used_nonces
          /\ (last' # last /\ last'.result = "NonceAlreadyUsed") =>
               balances' = balances]_vars

\* A submission made while an invocation was inside its transfer was
\* rejected as a replay, and the invocation is still inside the transfer.
ReentrancyGuardWitness ==
    /\ stack # <<>>
    /\ last.result = "NonceAlreadyUsed"
    /\ last.depth >= 1

\* C10 as stated: an invocation whose principal transfer fails ends with
\* TransferFailed, with every balance as before, no fee transfer and the
\* nonce consumed, so that every later unexpired submission of that
\* (from, nonce) is rejected with NonceAlreadyUsed, whatever from then holds.
PrincipalFailureIsTransferFailed ==
    /\ last.step = 7 =>
          /\ last.result = "TransferFailed"
          /\ last.fee_transfer = "none"
    /\ \A s \in Submissions :
          LET r == Run(s)
          IN  r.step = 7 =>
                 /\ r.balances = balances
                 /\ compute_nonce_hash(s.from, s.nonce) \in r.used_nonces
    /\ \A s \in Submissions :
          (<<s.from, s.nonce>> \in committed /\ now <= s.valid_until)
          => Checks(s).result = "NonceAlreadyUsed"

\* Step 7 of a submission that passed steps 1-5, on the current storage.
Principal(s) ==
    IF contract = HTTPUSD
    THEN twa_principal(balances, s.from, s.to, Checks(s).net)
    ELSE ep_principal(balances, s.to, Checks(s).net)

\* Step 8 of a submission whose principal transfer succeeded.
FeeStep(s) ==
    IF contract = HTTPUSD
    THEN twa_fee(Principal(s).balances, s.from, Checks(s).fee)
    ELSE ep_fee(Principal(s).balances, Checks(s).fee)

\* C11: when the principal transfer succeeds and the fee transfer fails, the
\* invocation still ends in Ok at step 9, the balances it leaves are those
\* the principal transfer left (net moved to the recipient), and the failed
\* fee transfer has changed none.
BestEffortFee ==
    \A s \in Submissions :
       (/\ Checks(s).result = "Ok"
        /\ Principal(s).ok
        /\ FeeStep(s).fee_transfer = "failed")
       => LET r == Run(s)
          IN  /\ r.result = "Ok"
              /\ r.step = 9
              /\ r.fee_transfer = "failed"
              /\ r.balances = Principal(s).balances
              /\ FeeStep(s).balances = Principal(s).balances
              /\ s.to # Payer(s.from) =>
                    r.balances[s.to] = balances[s.to] + Checks(s).net

\* httpusd: Alice held less than the amount; Bob has the net amount, Alice
\* nothing, and the call ended Ok with its fee transfer failed.
BestEffortFeeWitness ==
    /\ contract = HTTPUSD
    /\ last.result = "Ok"
    /\ last.fee_transfer = "failed"
    /\ balances[Alice] = 0
    /\ balances[Bob] = 1

\* C12: for every authorization that ends in Ok, under every fee rate the
\* storage holds (rates above 10000 included), the fee used is at most the
\* amount and net + fee is the amount.
FeeWithinAmount ==
    \A s \in Submissions :
       Run(s).result = "Ok" =>
          LET c == Checks(s)
          IN  /\ 0 <= c.fee
              /\ c.fee <= s.amount
              /\ 0 <= c.net
              /\ c.net + c.fee = s.amount

\* Executor: a payment of 2 at 50% has ended Ok with its fee of 1 paid to
\* the facilitator.
FeeWithinAmountWitness ==
    /\ contract = EXECUTOR
    /\ facilitator_fee_bps = 5000
    /\ last.result = "Ok"
    /\ last.fee_transfer = "paid"
    /\ balances[Owner] = 1
    /\ balances[Contract] = 0

-----------------------------------------------------------------------------
(* Fee arithmetic: the two handlers and set_facilitator_fee on amounts and  *)
(* rates that exercise the fee computation of step 5, with balances large   *)
(* enough to pay them.                                                      *)

\* initial_supply / endowment of the fee runs.
FeeSupply == 1000

FeeRatesWide == {0, 100, 5000, 10000, 20000}
FeeAmounts == {1, 3, 1000, U128Max}

\* Correctly signed, unexpired payments to Bob.
FeeSubmissions ==
    { Submission(k, Bob, amount, MaxTime,
                 Authorization(k[1], Bob, amount, k[2], MaxTime)) :
        <<k, amount>> \in Keys \X FeeAmounts }

InitFee ==
    /\ \E fee_bps \in FeeRatesWide :
          \/ new_httpusd(FeeSupply, fee_bps)
          \/ new_executor(FeeSupply, fee_bps)
    /\ now = 0
    /\ stack = <<>>
    /\ last = [result |-> "none", step |-> 0, fee_transfer |-> "none", depth |-> 0]
    /\ successes = [k \in Keys |-> 0]
    /\ committed = {}

SubmitFee ==
    \E s \in FeeSubmissions :
       \/ transfer_with_authorization(s.from, s.to, s.amount, s.valid_until,
                                      s.nonce, s.signature)
       \/ execute_payment(s.from, s.to, s.amount, s.nonce, s.valid_until,
                          s.signature)

AdminFee == \E fee_bps \in FeeRatesWide : set_facilitator_fee(Owner, fee_bps)

\* The owner hands the supply, or what is left of it, to Alice.
FundFee == \E value \in {FeeSupply, balances[Owner]} : transfer(Owner, Alice, value)

NextFee == SubmitFee \/ AdminFee \/ FundFee

SpecFee == InitFee /\ [][NextFee]_vars

\* amount * facilitator_fee_bps fits the balance type.
ProductInRange(amount) ==
    facilitator_fee_bps = 0 \/ amount <= U128Max \div facilitator_fee_bps

\* C13: whenever step 5 is reached and amount * fee rate does not overflow,
\* the fee computed is floor(amount * rate / 10000); when it does not exceed
\* the amount the call goes on with that fee and net = amount - fee.  A rate
\* of 100 on 1000 gives fee 10 and net 990; a rate of 0 gives fee 0 and
\* net = amount, and a call that then succeeds attempts no fee transfer.
FeeFormula ==
    \A s \in FeeSubmissions :
       LET c == Checks(s)
       IN  (c.step = 5 /\ ProductInRange(s.amount)) =>
              LET fee == (s.amount * facilitator_fee_bps) \div BpsDivisor
              IN  /\ facilitator_fee_of(s.amount) = Some(fee)
                  /\ fee <= s.amount =>
                        /\ c.result = "Ok"
                        /\ c.fee = fee
                        /\ c.net = s.amount - fee
                  /\ (facilitator_fee_bps = 100 /\ s.amount = 1000) =>
                        (c.result = "Ok" /\ c.fee = 10 /\ c.net = 990)
                  /\ facilitator_fee_bps = 0 =>
                        /\ c.result = "Ok" /\ c.fee = 0 /\ c.net = s.amount
                        /\ Run(s).result = "Ok" => Run(s).fee_transfer = "skipped"

\* httpusd at 1%: Alice has paid 1000; Bob holds 990 and the facilitator 10.
FeeFormulaWitness ==
    /\ contract = HTTPUSD
    /\ facilitator_fee_bps = 100
    /\ last.result = "Ok"
    /\ last.fee_transfer = "paid"
    /\ balances[Alice] = 0
    /\ balances[Bob] = 990
    /\ balances[Owner] = 10

-----------------------------------------------------------------------------
(* Fee configuration *)

\* C14 as stated: in every reachable state the stored fee rate is within
\* 0..10000 basis points.
FeeRateWithinBps == facilitator_fee_bps \in 0..BpsDivisor

\* What the two contracts return to a caller who is not the owner.
Unauthorized == {"PSP22(Custom(Not owner))", "InvalidRecipient"}

\* The fee rate is what get_facilitator_fee returns; a call by an account
\* other than the owner is rejected and would store what was stored; a call
\* by the owner returns Ok and would store the rate it was given.
SetFeeRateResults ==
    /\ get_facilitator_fee = facilitator_fee_bps
    /\ \A caller \in Accounts, fee_bps \in FeeRates :
          LET r == set_facilitator_fee_run(caller, fee_bps)
          IN  IF caller = owner
              THEN r.result = "Ok" /\ r.fee_bps = fee_bps
              ELSE r.result \in Unauthorized /\ r.fee_bps = facilitator_fee_bps

-----------------------------------------------------------------------------
(* Signature length: the two handlers on signatures of 63 and 65 bytes,     *)
(* next to the correctly signed calls that use up nonces, and the clock.    *)

\* Every payload with a signature one byte short or one byte long, made by
\* the signer or by another keypair over the payload's own digest.
LengthSubmissions ==
    { Submission(p[1], p[2], p[3], p[4],
                 Sign(p[5], Blake2(BuildMessage(p[1][1], p[2], p[3], p[1][2], p[4])),
                      p[6])) :
        p \in Keys \X {Bob, Owner} \X Amounts \X Timestamps
                \X {Alice, Owner, Bob} \X {SignatureLen - 1, SignatureLen + 1} }

SubmitLength ==
    \E s \in LengthSubmissions \cup {v \in Submissions : IsAuthorized(v)} :
       \/ transfer_with_authorization(s.from, s.to, s.amount, s.valid_until,
                                      s.nonce, s.signature)
       \/ execute_payment(s.from, s.to, s.amount, s.nonce, s.valid_until,
                          s.signature)

NextLength == SubmitLength \/ Tick

SpecLength == Init /\ [][NextLength]_vars

\* C16 as stated: a call whose signature is not 64 bytes long is rejected
\* with InvalidSignature whatever its content and its other fields, and
\* verify_signature returns false for it.
WrongLengthIsInvalidSignature ==
    \A s \in LengthSubmissions :
       /\ ~verify_signature(s.from, s.to, s.amount, s.nonce, s.valid_until,
                            s.signature)
       /\ Run(s).result = "InvalidSignature"

\* C16 amended: a call whose signature is not 64 bytes long is rejected at
\* step 3 or earlier and changes no balance and no nonce flag, whatever the
\* signature's content; verify_signature returns false for it; the
\* rejection is InvalidSignature exactly when the payload is unexpired and
\* its nonce unused, PaymentExpired or NonceAlreadyUsed otherwise.
WrongLengthRejected ==
    \A s \in LengthSubmissions :
       LET r == Run(s)
       IN  /\ ~verify_signature(s.from, s.to, s.amount, s.nonce, s.valid_until,
                                s.signature)
           /\ r.result \in {"PaymentExpired", "NonceAlreadyUsed", "InvalidSignature"}
           /\ r.step <= 3
           /\ r.balances = balances
           /\ r.used_nonces = used_nonces
           /\ (r.result = "InvalidSignature") <=>
                 (now <= s.valid_until /\ ~is_nonce_used_value(s.from, s.nonce))

\* A payment has succeeded, and a later call with a signature of 63 or 65
\* bytes for the other signer was rejected for its signature.
WrongLengthRejectedWitness ==
    /\ \E k \in Keys : successes[k] = 1
    /\ last.result = "InvalidSignature"
    /\ last.step = 3
    /\ now = MaxTime

-----------------------------------------------------------------------------
(* Rejections of steps 4 and 5 *)

\* C17 as stated: an unexpired, fresh-nonce, correctly signed authorization
\* with amount 0 is rejected at step 4 with the error ZeroAmount, and the
\* rejection consumes no nonce and changes no balance.
ZeroAmountRejected ==
    /\ last.step = 4 => last.result = "ZeroAmount"
    /\ \A s \in Submissions :
          (/\ s.amount = 0
           /\ now <= s.valid_until
           /\ ~is_nonce_used_value(s.from, s.nonce)
           /\ IsAuthorized(s))
          => LET r == Run(s)
             IN  /\ r.result # "Ok"
                 /\ r.step = 4
                 /\ r.balances = balances
                 /\ r.used_nonces = used_nonces

\* The errors of the two contracts that name an arithmetic overflow.
ArithmeticOverflow == {"PSP22(Custom(Overflow))"}

\* amount * rate leaves the balance type, or the fee exceeds the amount.
FeeOverflows(amount) ==
    \/ ~ProductInRange(amount)
    \/ (amount * facilitator_fee_bps) \div BpsDivisor > amount

\* C18 as stated: when amount * rate overflows, or the fee exceeds the
\* amount, the call is rejected at step 5 with an arithmetic-overflow
\* error, consumes no nonce and changes no balance, so that whatever call
\* would have succeeded before it still succeeds after it.
OverflowRejected ==
    /\ last.step = 5 => last.result \in ArithmeticOverflow
    /\ \A s \in Submissions :
          LET c == Checks(s)
              r == Run(s)
          IN  /\ (c.step = 5 /\ FeeOverflows(s.amount)) =>
                    /\ r.result # "Ok"
                    /\ r.step = 5
                    /\ r.balances = balances
                    /\ r.used_nonces = used_nonces
              /\ (c.step = 5 /\ ~FeeOverflows(s.amount)) => c.result = "Ok"

-----------------------------------------------------------------------------
(* The httpusd ledger at the top of the balance range: the whole range is   *)
(* minted to the owner, and transfer, transfer_from and                     *)
(* transfer_with_authorization move amounts that keep every balance and     *)
(* the allowance in use within LedgerSpan of an end of the range.           *)

LedgerSpan == 2

Near == (0..LedgerSpan) \cup ((U128Max - LedgerSpan)..U128Max)
InNear(bal) == \A a \in Holders : bal[a] \in Near

LedgerValues == {0, 1, U128Max - 1, U128Max}

\* Correctly signed, unexpired payments of 1 and 2.
LedgerSubmissions ==
    { Submission(k, to, amount, MaxTime,
                 Authorization(k[1], to, amount, k[2], MaxTime)) :
        <<k, to, amount>> \in Keys \X {Bob, Owner} \X {1, 2} }

InitLedger ==
    /\ \E fee_bps \in {0, 5000} : new_httpusd(U128Max, fee_bps)
    /\ now = 0
    /\ stack = <<>>
    /\ last = [result |-> "none", step |-> 0, fee_transfer |-> "none", depth |-> 0]
    /\ successes = [k \in Keys |-> 0]
    /\ committed = {}

TransferLedger ==
    \E caller \in Accounts, to \in Accounts, value \in LedgerValues :
       transfer(caller, to, value) /\ InNear(balances')

ApproveLedger == \E value \in {0, U128Max} : approve(Alice, Bob, value)

TransferFromLedger ==
    \E to \in Accounts, value \in LedgerValues :
       /\ transfer_from(Bob, Alice, to, value)
       /\ InNear(balances')
       /\ allowances'[<<Alice, Bob>>] \in Near

SubmitLedger ==
    \E s \in LedgerSubmissions :
       /\ transfer_with_authorization(s.from, s.to, s.amount, s.valid_until,
                                      s.nonce, s.signature)
       /\ InNear(balances')

NextLedger == TransferLedger \/ ApproveLedger \/ TransferFromLedger \/ SubmitLedger

SpecLedger == InitLedger /\ [][NextLedger]_vars

\* C19: on the balances of every reachable state, transfer_from_to(from, to,
\* value) fails with InsufficientBalance when from holds less than value and
\* with Overflow when the credit would leave the range; whenever it fails
\* the balances it leaves are those it found; when it succeeds from is down
\* by value and to up by value, nothing changing when from = to; and no
\* balance it leaves is outside 0..2^128-1.
LedgerAllOrNothing ==
    \A from \in Accounts, to \in Accounts, value \in LedgerValues :
       LET t == transfer_from_to(balances, from, to, value)
       IN  /\ balances[from] < value =>
                (~t.ok /\ t.err = "PSP22(InsufficientBalance)")
           /\ (balances[from] >= value /\ from # to
                 /\ balances[to] + value > U128Max) =>
                (~t.ok /\ t.err = "PSP22(Custom(Overflow))")
           /\ ~t.ok => t.balances = balances
           /\ t.ok =>
                 \A a \in Holders :
                    t.balances[a] = balances[a]
                                    - (IF a = from THEN value ELSE 0)
                                    + (IF a = to THEN value ELSE 0)
           /\ \A a \in Holders : t.balances[a] \in 0..U128Max

\* The owner holds one unit less than the whole range and Alice the unit,
\* after a transfer; Alice's approval of Bob stands.
LedgerAllOrNothingWitness ==
    /\ balances[Owner] = U128Max - 1
    /\ balances[Alice] = 1
    /\ allowances[<<Alice, Bob>>] = U128Max

-----------------------------------------------------------------------------
(* The authorization handlers one numbered step at a time.  One invocation  *)
(* runs at a time; its frame holds its arguments, the step it is about to   *)
(* execute, the fee and net amount once computed, and the steps it has      *)
(* executed.  The handler, once called, runs on until it returns.           *)

PipelineSubmissions ==
    { s \in Submissions :
         s.to = Bob /\ (IsAuthorized(s) \/ s.signature.len # SignatureLen) }

PipelineFrame(s) ==
    [from |-> s.from, to |-> s.to, amount |-> s.amount, nonce |-> s.nonce,
     valid_until |-> s.valid_until, signature |-> s.signature,
     pc |-> 1, fee |-> 0, net |-> 0, fee_transfer |-> "none", trace |-> <<>>]

\* The message is called.
Invoke ==
    /\ stack = <<>>
    /\ \E s \in PipelineSubmissions : stack' = <<PipelineFrame(s)>>
    /\ UNCHANGED <<contract, balances, allowances, used_nonces, owner,
                   facilitator_fee_bps, total_supply, now, last, successes,
                   committed>>

InStep(n) == stack # <<>> /\ Top.pc = n

Advance(f) == [f EXCEPT !.pc = @ + 1, !.trace = Append(@, f.pc)]

\* The handler goes on to its next step.
Continue == stack' = <<Advance(Top)>> /\ UNCHANGED last

\* The handler returns.
Finish(result) ==
    /\ stack' = <<>>
    /\ last' = [result |-> result, step |-> Top.pc,
                fee_transfer |-> Top.fee_transfer, depth |-> 0]

\* 1. Check if payment has expired
ExpiryCheck ==
    /\ InStep(1)
    /\ IF is_expired(now, Top.valid_until)
       THEN Finish("PaymentExpired") ELSE Continue
    /\ UNCHANGED <<contract, balances, allowances, used_nonces, owner,
                   facilitator_fee_bps, total_supply, now, successes, committed>>

\* 2. Check if nonce has been used
NonceCheck ==
    /\ InStep(2)
    /\ IF nonce_is_used(compute_nonce_hash(Top.from, Top.nonce))
       THEN Finish("NonceAlreadyUsed") ELSE Continue
    /\ UNCHANGED <<contract, balances, allowances, used_nonces, owner,
                   facilitator_fee_bps, total_supply, now, successes, committed>>

\* 3. Verify signature
SignatureVerify ==
    /\ InStep(3)
    /\ IF ~verify_signature(Top.from, Top.to, Top.amount, Top.nonce,
                            Top.valid_until, Top.signature)
       THEN Finish("InvalidSignature") ELSE Continue
    /\ UNCHANGED <<contract, balances, allowances, used_nonces, owner,
                   facilitator_fee_bps, total_supply, now, successes, committed>>

\* (variant: the rejection is reported and the handler goes on)
AmountValidateNoReturn ==
    /\ InStep(4)
    /\ stack' = <<Advance(Top)>>
    /\ IF Top.amount = 0
       THEN last' = [result |-> "ZeroAmount", step |-> 4,
                     fee_transfer |-> "none", depth |-> 0]
       ELSE UNCHANGED last
    /\ UNCHANGED <<contract, balances, allowances, used_nonces, owner,
                   facilitator_fee_bps, total_supply, now, successes, committed>>

\* 4. Validate amount
AmountValidate ==
    /\ InStep(4)
    /\ IF Top.amount = 0
       THEN Finish(IF contract = HTTPUSD THEN "PSP22(InsufficientBalance)"
                   ELSE "ZeroAmount")
       ELSE Continue
    /\ UNCHANGED <<contract, balances, allowances, used_nonces, owner,
                   facilitator_fee_bps, total_supply, now, successes, committed>>

\* 5. Calculate facilitator fee
FeeCompute ==
    /\ InStep(5)
    /\ LET facilitator_fee == facilitator_fee_of(Top.amount)
           err == IF contract = HTTPUSD THEN "PSP22(InsufficientBalance)"
                  ELSE "InsufficientBalance"
       IN  IF ~IsSome(facilitator_fee) THEN Finish(err)
           ELSE IF ~IsSome(net_amount_of(Top.amount, Unwrap(facilitator_fee)))
                THEN Finish(err)
           ELSE /\ stack' = <<[Advance(Top) EXCEPT
                                 !.fee = Unwrap(facilitator_fee),
                                 !.net = Unwrap(net_amount_of(Top.amount,
                                                  Unwrap(facilitator_fee)))]>>
                /\ UNCHANGED last
    /\ UNCHANGED <<contract, balances, allowances, used_nonces, owner,
                   facilitator_fee_bps, total_supply, now, successes, committed>>

\* 6. Mark nonce as used BEFORE transfer
NonceCommit ==
    /\ InStep(6)
    /\ used_nonces' = mark_nonce_used(used_nonces, Top.from, Top.nonce)
    /\ committed' = committed \cup {<<Top.from, Top.nonce>>}
    /\ Continue
    /\ UNCHANGED <<contract, balances, allowances, owner,
                   facilitator_fee_bps, total_supply, now, successes>>
\* 7. Execute transfer to the recipient
PrincipalTransfer ==
    /\ InStep(7)
    /\ LET t7 == IF contract = HTTPUSD
                 THEN twa_principal(balances, Top.from, Top.to, Top.net)
                 ELSE ep_principal(balances, Top.to, Top.net)
       IN  /\ balances' = t7.balances
           /\ IF t7.ok THEN Continue ELSE Finish(t7.err)
    /\ UNCHANGED <<contract, allowances, used_nonces, owner,
                   facilitator_fee_bps, total_supply, now, successes, committed>>

\* 8. Transfer fee to facilitator
FeeTransfer ==
    /\ InStep(8)
    /\ LET t8 == IF contract = HTTPUSD
                 THEN twa_fee(balances, Top.from, Top.fee)
                 ELSE ep_fee(balances, Top.fee)
       IN  /\ balances' = t8.balances
           /\ stack' = <<[Advance(Top) EXCEPT !.fee_transfer = t8.fee_transfer]>>
    /\ UNCHANGED <<contract, allowances, used_nonces, owner,
                   facilitator_fee_bps, total_supply, now, last, successes,
                   committed>>

\* 9. Emit success event, return Ok
EmitSuccess ==
    /\ InStep(9)
    /\ Finish("Ok")
    /\ successes' = Bump(successes, Top.from, Top.nonce)
    /\ UNCHANGED <<contract, balances, allowances, used_nonces, owner,
                   facilitator_fee_bps, total_supply, now, committed>>

StepPipeline ==
    \/ ExpiryCheck \/ NonceCheck \/ SignatureVerify \/ AmountValidate
    \/ FeeCompute \/ NonceCommit \/ PrincipalTransfer \/ FeeTransfer
    \/ EmitSuccess

NextPipeline == Invoke \/ StepPipeline \/ TickBetween

SpecPipeline == Init /\ [][NextPipeline]_vars /\ WF_vars(StepPipeline)

\* The steps an invocation has executed are 1, 2, ... up to the one before
\* the step it is about to execute.
ExecutedInOrder ==
    stack # <<>> =>
       /\ Len(stack) = 1
       /\ Top.pc \in 1..9
       /\ Top.trace = [i \in 1..(Top.pc - 1) |-> i]

\* A step of a running invocation either goes on to the next higher step
\* without a result, or returns with exactly one result: Ok from step 9, a
\* rejection from step 1, 2, 3, 4, 5 or 7.  Nothing returns a result when no
\* invocation is running.
ForwardOrReturn ==
    /\ (stack # <<>> /\ stack' # stack) =>
          \/ /\ stack' # <<>>
             /\ Top'.pc = Top.pc + 1
             /\ Top'.trace = Append(Top.trace, Top.pc)
             /\ last' = last
          \/ /\ stack' = <<>>
             /\ last'.step = Top.pc
             /\ last'.result # "none"
             /\ (last'.result = "Ok") <=> (Top.pc = 9)
             /\ last'.result # "Ok" => Top.pc \in {1, 2, 3, 4, 5, 7}
    /\ stack = <<>> => last' = last

\* C20: every invocation returns, with exactly one result, Ok or a
\* rejection, after executing steps 1, 2, ... in increasing order, none
\* twice and none after a rejection.
PipelineTerminates ==
    /\ []ExecutedInOrder
    /\ [][ForwardOrReturn]_vars
    /\ (stack # <<>>) ~> (stack = <<>>)

\* An invocation has executed steps 1 to 8 and is about to return Ok, after
\* an earlier one was rejected.
PipelineTerminatesWitness ==
    /\ stack # <<>>
    /\ Top.pc = 9
    /\ Top.trace = <<1, 2, 3, 4, 5, 6, 7, 8>>
    /\ last.result \notin {"none", "Ok"}

-----------------------------------------------------------------------------
(* Order of the checks *)

\* The conditions a submission violates on the current storage, by the
\* number of the check that tests each.
Violates(s) ==
    (IF now > s.valid_until THEN {1} ELSE {})
    \cup (IF <<s.from, s.nonce>> \in committed THEN {2} ELSE {})
    \cup (IF ~IsAuthorized(s) THEN {3} ELSE {})
    \cup (IF s.amount = 0 THEN {4} ELSE {})
    \cup (IF FeeOverflows(s.amount) THEN {5} ELSE {})

Lowest(S) == CHOOSE n \in S : \A m \in S : n <= m

\* C21: a submission that violates one or more of the conditions expiry,
\* nonce-used, signature, zero amount, fee overflow is rejected by the check
\* of the first of them in that order, whatever else it violates: with
\* PaymentExpired when it is expired, else with NonceAlreadyUsed when its
\* nonce is used, else with InvalidSignature when its signature is invalid,
\* else at step 4 when its amount is 0, else at step 5; a submission that
\* violates none passes all five checks.
CheckPrecedence ==
    \A s \in Submissions :
       LET r == Run(s)
           v == Violates(s)
       IN  /\ v = {} => r.step >= 7
           /\ v # {} =>
                 /\ r.step = Lowest(v)
                 /\ r.result # "Ok"
                 /\ Lowest(v) = 1 => r.result = "PaymentExpired"
                 /\ Lowest(v) = 2 => r.result = "NonceAlreadyUsed"
                 /\ Lowest(v) = 3 => r.result = "InvalidSignature"

\* A payload that is expired, carries a used nonce, an invalid signature and
\* amount 0 all at once is rejected as expired; one that is unexpired with a
\* used nonce and an invalid signature as a replay; one with an invalid
\* signature and amount 0 for its signature; and the last call made was
\* rejected as expired.
CheckPrecedenceWitness ==
    /\ last.result = "PaymentExpired"
    /\ \E s \in Submissions :
          Violates(s) = {1, 2, 3, 4} /\ Run(s).result = "PaymentExpired"
    /\ \E s \in Submissions :
          Violates(s) = {2, 3} /\ Run(s).result = "NonceAlreadyUsed"
    /\ \E s \in Submissions :
          Violates(s) = {3, 4} /\ Run(s).result = "InvalidSignature"

-----------------------------------------------------------------------------
(* Scope of a nonce *)

\* The (signer, nonce string) pairs probed: every account with nonce
\* strings of lengths 0 to 3 whose bytes are also bytes of account ids.
ScopePairs ==
    Holders \X {<<>>, <<1>>, <<2>>, <<1, 1>>, <<1, 2>>, <<2, 1>>, <<1, 1, 1>>}

\* What is_nonce_used(from, nonce) returns on the flags used.
FlagIn(used, from, nonce) == compute_nonce_hash(from, nonce) \in used

\* C22: distinct (from, nonce) pairs have distinct nonce hashes; an
\* invocation for (from, nonce) leaves is_nonce_used as it was for every
\* other signer with the same nonce string and for every other nonce string
\* of the same signer; and an authorization of a signer whose pair is not
\* committed is not turned away as a replay when another signer has
\* consumed the same nonce string: if it violates nothing else it passes
\* all the checks.
NonceScopedPerSigner ==
    /\ \A p \in ScopePairs, q \in ScopePairs :
          p # q => compute_nonce_hash(p[1], p[2]) # compute_nonce_hash(q[1], q[2])
    /\ \A s \in Submissions :
          LET r == Run(s)
          IN  \A p \in ScopePairs :
                 p # <<s.from, s.nonce>> =>
                    (FlagIn(r.used_nonces, p[1], p[2])
                        <=> FlagIn(used_nonces, p[1], p[2]))
    /\ \A s \in Submissions :
          (/\ <<s.from, s.nonce>> \notin committed
           /\ \E k \in committed : k[1] # s.from /\ k[2] = s.nonce)
          => LET r == Run(s)
             IN  /\ r.result # "NonceAlreadyUsed"
                 /\ Violates(s) = {} => r.step >= 7

\* Both signers have succeeded with the same nonce string, the second after
\* the first, and no other pair's flag is set.
NonceScopedPerSignerWitness ==
    /\ \A k \in Keys : successes[k] = 1
    /\ last.result = "Ok"
    /\ \A p \in ScopePairs : FlagIn(used_nonces, p[1], p[2]) <=> p \in Keys

-----------------------------------------------------------------------------
(* A signature presented with another payload.  Payloads differ in every    *)
(* field; amounts 1 and 257 differ in the second byte of their encoding     *)
(* only, next to nonce strings of one and two bytes.                        *)

BindingPayloads ==
    [from : {Alice, Owner}, to : {Bob, Owner}, amount : {1, 257},
     nonce : Nonces, valid_until : Timestamps]

\* Payload p submitted with the authorization its signer or another signer
\* issued for payload q.
Transplant(p, q) ==
    [from |-> p.from, to |-> p.to, amount |-> p.amount, nonce |-> p.nonce,
     valid_until |-> p.valid_until,
     signature |-> Authorization(q.from, q.to, q.amount, q.nonce, q.valid_until)]

BindingSubmissions ==
    { Transplant(p, q) : <<p, q>> \in
         { pq \in BindingPayloads \X BindingPayloads :
              pq[1] = pq[2] => <<pq[1].from, pq[1].nonce>> \in Keys } }

SubmitBinding ==
    \E s \in BindingSubmissions :
       \/ transfer_with_authorization(s.from, s.to, s.amount, s.valid_until,
                                      s.nonce, s.signature)
       \/ execute_payment(s.from, s.to, s.amount, s.nonce, s.valid_until,
                          s.signature)

NextBinding == SubmitBinding \/ Tick

SpecBinding == Init /\ [][NextBinding]_vars

MessageOf(p) == BuildMessage(p.from, p.to, p.amount, p.nonce, p.valid_until)

\* C23: the signed messages of two payloads that differ in from, to, amount,
\* nonce or valid_until are distinct, and a payload submitted with the
\* authorization issued for a different payload never ends in Ok: it is
\* rejected at the signature check or before, and moves no funds and
\* consumes no nonce; so the only (from, nonce) ever committed are those of
\* the payloads submitted with their own authorization.
SignatureBindsPayload ==
    /\ \A p \in BindingPayloads, q \in BindingPayloads :
          p # q => MessageOf(p) # MessageOf(q)
    /\ \A p \in BindingPayloads, q \in BindingPayloads :
          p # q =>
             LET r == Run(Transplant(p, q))
             IN  /\ r.result \in {"PaymentExpired", "NonceAlreadyUsed",
                                  "InvalidSignature"}
                 /\ r.step <= 3
                 /\ r.balances = balances
                 /\ r.used_nonces = used_nonces
    /\ committed \subseteq Keys

\* At the last timestamp an authorization that has expired is presented
\* with a later valid_until, and separately with another recipient, another
\* amount and another nonce, by a payer who holds the funds: each is
\* rejected for its signature, as was the last call made.
SignatureBindsPayloadWitness ==
    /\ now = MaxTime
    /\ last.result = "InvalidSignature"
    /\ last.step = 3
    /\ \E q \in BindingPayloads :
          /\ q.valid_until < now
          /\ balances[Payer(q.from)] >= q.amount
          /\ \A p \in BindingPayloads :
                (/\ p.from = q.from
                 /\ p.valid_until = now
                 /\ <<p.from, p.nonce>> \notin committed)
                => Run(Transplant(p, q)).result = "InvalidSignature"
          /\ \E p \in BindingPayloads :
                /\ p.from = q.from /\ p.to = q.to /\ p.amount = q.amount
                /\ p.nonce = q.nonce /\ p.valid_until = now
                /\ <<p.from, p.nonce>> \notin committed

====
